---- MODULE Spec2Model ----
(***************************************************************************)
(* Protocol generator for the Bayesian-optimisation colour-mixing loop     *)
(* (src/Hint/protocol_generator.py).                                       *)
(*                                                                         *)
(* A text is a sequence of tokens whose concatenation is the real text.    *)
(* The literals the code searches for (the marker comment with its         *)
(* "BO_DATA = " assignment, the protocolName label) are single tokens, the *)
(* braces are always tokens of their own, and every other token is free of *)
(* braces, so matching on tokens is matching on characters.                *)
(***************************************************************************)
EXTENDS Integers, Sequences, FiniteSets, TLC

\* ------------------------------------------------------------------ bounds
\* Largest iteration number passed to a generation call.
MaxIter == 1
\* Largest number of rows of an input table.
MaxRows == 1
\* Largest number of calls in a run of the loop.
MaxCalls == 2
\* Largest number of tokens that reach the file before a write fails.
MaxWritten == 1

\* ------------------------------------------------------------------ tokens
NL == "\n"
IND4 == "    "
IND8 == "        "
IND16 == "                "
LBRACE == "{"
RBRACE == "}"
QUOTE == "\""

\* The marker comment and the assignment that the pattern of re.sub names.
MARKER == "    # BO ITERATION DATA - WILL BE REPLACED DYNAMICALLY\n    BO_DATA = "
\* The label literal of str.replace.
LABEL == "'protocolName': 'Color Liquid Mixing - Bayesian Optimization',"

Columns == <<"colorA", "colorB", "colorC", "DispensePos">>
ColumnSet == {Columns[i] : i \in 1..Len(Columns)}

\* ------------------------------------------------------------ text helpers
\* str(n) of a non-negative integer, one token per digit.
Digit(d) == <<"0", "1", "2", "3", "4", "5", "6", "7", "8", "9">>[d + 1]

RECURSIVE Str(_)
Str(n) == IF n < 10 THEN <<Digit(n)>> ELSE Str(n \div 10) \o <<Digit(n % 10)>>

\* repr of a float given in tenths: 25 is 2.5, 10 is 1.0.
FloatRepr(t) == Str(t \div 10) \o <<".", Digit(t % 10)>>

\* s.replace(old, new) on the tokens lo..hi of s, old being one token: every
\* occurrence is replaced (the range is halved to keep the evaluation shallow).
RECURSIVE ReplaceRange(_, _, _, _, _)
ReplaceRange(s, old, new, lo, hi) ==
    IF lo > hi THEN <<>>
    ELSE IF lo = hi THEN (IF s[lo] = old THEN new ELSE <<s[lo]>>)
    ELSE ReplaceRange(s, old, new, lo, (lo + hi) \div 2)
         \o ReplaceRange(s, old, new, (lo + hi) \div 2 + 1, hi)

ReplaceToken(s, old, new) == ReplaceRange(s, old, new, 1, Len(s))

\* ---------------------------------------------------------------- json.dumps
\* A table cell is a float, [t |-> "float", v |-> tenths], or a string,
\* [t |-> "str", v |-> its characters].
Float(t) == [t |-> "float", v |-> t]
Text(cs) == [t |-> "str", v |-> cs]

\* One list item: a float by its repr, a string between double quotes.  The
\* strings of the model hold no quote, backslash, control or non-ASCII
\* character, the only characters json.dumps escapes.
JsonItem(x) == IF x.t = "float" THEN FloatRepr(x.v) ELSE <<QUOTE>> \o x.v \o <<QUOTE>>

RECURSIVE JsonItems(_)
JsonItems(vs) ==
    IF vs = <<>> THEN <<>>
    ELSE <<NL, IND16>> \o JsonItem(Head(vs))
         \o (IF Len(vs) > 1 THEN <<",">> ELSE <<>>) \o JsonItems(Tail(vs))

\* A list with indent=8 at nesting level 1: "[]" when empty.
JsonList(vs) ==
    IF vs = <<>> THEN <<"[", "]">>
    ELSE <<"[">> \o JsonItems(vs) \o <<NL, IND8, "]">>

JsonKey(c) == "\"" \o c \o "\""

RECURSIVE JsonMembers(_, _)
JsonMembers(bo_data, i) ==
    IF i > Len(Columns) THEN <<>>
    ELSE <<NL, IND8, JsonKey(Columns[i]), ": ">> \o JsonList(bo_data[Columns[i]])
         \o (IF i < Len(Columns) THEN <<",">> ELSE <<>>)
         \o JsonMembers(bo_data, i + 1)

\* json.dumps(bo_data, indent=8): the keys in the insertion order of bo_data.
JsonDumps(bo_data) == <<LBRACE>> \o JsonMembers(bo_data, 1) \o <<NL, RBRACE>>

\* ------------------------------------------------------------- the patcher
\* Lines 55-56: the new marker comment and the BO_DATA literal, the JSON text
\* with every brace padded by .replace('{', ...).replace('}', ...).
DataSection(bo_data, iteration_number) ==
    <<"    # BO ITERATION DATA - BO">> \o Str(iteration_number)
    \o <<"\n    BO_DATA = ">>
    \o ReplaceToken(ReplaceToken(JsonDumps(bo_data), LBRACE, <<LBRACE, NL, IND8>>),
                    RBRACE, <<NL, IND4, RBRACE>>)

\* Position of the first "}" at or after i, 0 when there is none.
FirstClose(s, i) ==
    LET closes == {j \in i..Len(s) : s[j] = RBRACE}
    IN  IF closes = {} THEN 0 ELSE CHOOSE j \in closes : \A k \in closes : j <= k

\* The pattern MARKER \{[^}]+\} matched at position i: the position of its
\* last token, 0 when it does not match there.  [^}]+ takes at least one
\* character and stops at the first closing brace.
MatchEnd(s, i) ==
    IF i + 1 <= Len(s) /\ s[i] = MARKER /\ s[i + 1] = LBRACE
    THEN LET j == FirstClose(s, i + 2)
         IN  IF j >= i + 3 THEN j ELSE 0
    ELSE 0

\* re.sub(pattern, repl, s) with count=0: every non-overlapping match, from
\* the left, is replaced.  repl holds no backslash, so its expansion as a
\* replacement template is repl itself.
RECURSIVE ReSubFrom(_, _, _)
ReSubFrom(s, repl, i) ==
    IF i > Len(s) THEN <<>>
    ELSE LET j == MatchEnd(s, i)
         IN  IF j > 0 THEN repl \o ReSubFrom(s, repl, j + 1)
             ELSE <<s[i]>> \o ReSubFrom(s, repl, i + 1)

ReSub(repl, s) == ReSubFrom(s, repl, 1)

\* The label of lines 66/129.
NewLabel(iteration_number) ==
    <<"'protocolName': 'Color Liquid Mixing - BO Iteration ">>
    \o Str(iteration_number) \o <<"',">>

\* Lines 64-67: str.replace replaces every occurrence of the label.
Relabel(s, iteration_number) == ReplaceToken(s, LABEL, NewLabel(iteration_number))

\* Lines 54-67 (and 117-130): updated_content.
PatchText(protocol_content, bo_data, iteration_number) ==
    Relabel(ReSub(DataSection(bo_data, iteration_number), protocol_content),
            iteration_number)

\* ---------------------------------------------------------------- tables
\* What pd.read_csv hands back, or a caller's DataFrame: the columns it has
\* and its rows.  ReadError stands for the exception of a failed read.
DataFrame(cols, rows) == [ok |-> TRUE, cols |-> cols, rows |-> rows]
ReadError == [ok |-> FALSE, cols |-> {}, rows |-> <<>>]

\* A file of the working directory: absent, or holding a text.
NoFile == [exists |-> FALSE, text |-> <<>>]
File(text) == [exists |-> TRUE, text |-> text]

\* df[c].tolist(): the column's cells in row order.
ColumnList(df, c) == [i \in 1..Len(df.rows) |-> df.rows[i][c]]

\* Lines 34-39 (93-98): the four lists, under the keys in the order written.
BoData(df) == [c \in ColumnSet |-> ColumnList(df, c)]

\* Subscripts that never raise (a df.get(c, []) in place of df[c]).
FirstMissing_None(df, i) == ""

\* The first of the four subscripts df['colorA'], df['colorB'], ... that
\* raises KeyError; "" when every column is there.
RECURSIVE FirstMissing(_, _)
FirstMissing(df, i) ==
    IF i > Len(Columns) THEN ""
    ELSE IF Columns[i] \notin df.cols THEN Columns[i]
    ELSE FirstMissing(df, i + 1)

\* ----------------------------------------------------------------- results
None == [kind |-> "None", path |-> <<>>, exc |-> <<>>]
Returned(p) == [kind |-> "path", path |-> p, exc |-> <<>>]
Raised(e) == [kind |-> "raise", path |-> <<>>, exc |-> e]

\* Lines 42-43 (105-106): os.path.join(output_dir, f"color_mixing_BO{n}.py").
ProtocolPath(output_dir, iteration_number) ==
    <<output_dir, "/", "color_mixing_BO">> \o Str(iteration_number) \o <<".py">>

\* Lines 70-72 (133-135): open(protocol_path, 'w') and write: the file holds
\* the new text and nothing else.
WriteFile(fs, protocol_path, updated_content) ==
    [fs EXCEPT ![protocol_path] = File(updated_content)]

\* Lines 70-77 (133-140): what the try block of the write can do.  open() may
\* fail, which leaves the destination alone; after open() has truncated or
\* created the file, f.write or the flush at close may fail with only the
\* first `written' tokens in the file; or all of it succeeds.
OpenFails == [opened |-> FALSE, complete |-> FALSE, written |-> 0]
WriteFails(k) == [opened |-> TRUE, complete |-> FALSE, written |-> k]
WriteDone == [opened |-> TRUE, complete |-> TRUE, written |-> 0]
WriteOutcomes == {OpenFails, WriteDone} \cup {WriteFails(k) : k \in 0..MaxWritten}

\* Lines 71-72 (134-135) when the write fails: open(protocol_path, 'w') has
\* emptied the file and the start of the new text is all that it holds.
WritePart(fs, protocol_path, updated_content, k) ==
    [fs EXCEPT ![protocol_path] =
        File(SubSeq(updated_content, 1,
                    IF k < Len(updated_content) THEN k ELSE Len(updated_content)))]

\* Lines 41-77 and 104-140, the part the two generation functions share: read
\* the template, patch it, write the artifact.  tpl is the content of
\* color_mixing.py or NoFile; wr is what the write of lines 70-72 does, one
\* of WriteOutcomes.
PatchAndSave(bo_data, iteration_number, output_dir, tpl, fs, wr, log) ==
    LET protocol_path == ProtocolPath(output_dir, iteration_number)
    IN  IF ~tpl.exists
        THEN [result |-> None, files |-> fs,
              log |-> log \o <<"Error reading base protocol">>]
        ELSE IF ~wr.opened
        THEN [result |-> None, files |-> fs,
              log |-> log \o <<"Error writing protocol file">>]
        ELSE IF ~wr.complete
        THEN [result |-> None,
              files |-> WritePart(fs, protocol_path,
                                  PatchText(tpl.text, bo_data, iteration_number),
                                  wr.written),
              log |-> log \o <<"Error writing protocol file">>]
        ELSE [result |-> Returned(protocol_path),
              files |-> WriteFile(fs, protocol_path,
                                  PatchText(tpl.text, bo_data, iteration_number)),
              log |-> log \o <<"Generated protocol file">>]

\* Lines 10-77.  read is what pd.read_csv(csv_file_path) gives.
generate_protocol_from_csv(read, iteration_number, output_dir, tpl, fs, wr) ==
    IF ~read.ok
    THEN [result |-> None, files |-> fs, log |-> <<"Error reading CSV file">>]
    ELSE IF FirstMissing(read, 1) # ""
    THEN [result |-> Raised(<<"KeyError", FirstMissing(read, 1)>>), files |-> fs,
          log |-> <<"Loaded CSV data">>]
    ELSE PatchAndSave(BoData(read), iteration_number, output_dir, tpl, fs,
                      wr, <<"Loaded CSV data">>)

\* Lines 79-140.
generate_protocol_from_dataframe(df, iteration_number, output_dir, tpl, fs, wr) ==
    IF FirstMissing(df, 1) # ""
    THEN [result |-> Raised(<<"KeyError", FirstMissing(df, 1)>>), files |-> fs,
          log |-> <<>>]
    ELSE PatchAndSave(BoData(df), iteration_number, output_dir, tpl, fs,
                      wr, <<"Processing DataFrame data">>)

\* ------------------------------------------------------------- the handler
IsDigit(c) == c \in {"0", "1", "2", "3", "4", "5", "6", "7", "8", "9"}
DigitValue(c) == CHOOSE d \in 0..9 : Digit(d) = c

\* Whether the characters of lit stand in s from position i on.
StartsAt(s, i, lit) ==
    /\ i + Len(lit) - 1 <= Len(s)
    /\ \A k \in 1..Len(lit) : s[i + k - 1] = lit[k]

\* The end of the longest run of digits that starts at i (\d+ is greedy).
RECURSIVE DigitsEnd(_, _)
DigitsEnd(s, i) ==
    IF i + 1 <= Len(s) /\ IsDigit(s[i + 1]) THEN DigitsEnd(s, i + 1) ELSE i

\* int() of the digits s[i..j].
RECURSIVE IntOf(_, _, _)
IntOf(s, i, j) ==
    IF j < i THEN 0 ELSE 10 * IntOf(s, i, j - 1) + DigitValue(s[j])

\* re.search(r'BO_R(\d+)', s) from position i on: the leftmost place where
\* BO_R is followed by a digit; its group as [found, value].
RECURSIVE SearchFrom(_, _)
SearchFrom(s, i) ==
    IF i > Len(s) THEN [found |-> FALSE, value |-> 0]
    ELSE IF StartsAt(s, i, <<"B", "O", "_", "R">>) /\ i + 4 <= Len(s) /\ IsDigit(s[i + 4])
    THEN [found |-> TRUE, value |-> IntOf(s, i + 4, DigitsEnd(s, i + 4))]
    ELSE SearchFrom(s, i + 1)

\* The digits right after the first BO_R of the path, whatever follows it.
IterationOf_AfterFirst(csv_file_path) ==
    LET at == {i \in 1..Len(csv_file_path) : StartsAt(csv_file_path, i, <<"B", "O", "_", "R">>)}
    IN  IF at = {} THEN 0
        ELSE LET i == CHOOSE x \in at : \A y \in at : x <= y
             IN  IF i + 4 <= Len(csv_file_path) /\ IsDigit(csv_file_path[i + 4])
                 THEN IntOf(csv_file_path, i + 4, DigitsEnd(csv_file_path, i + 4))
                 ELSE 0

\* Lines 156-160.
IterationOf(csv_file_path) ==
    LET match == SearchFrom(csv_file_path, 1)
    IN  IF match.found THEN match.value ELSE 0

\* Lines 142-183.  read is what the read of line 25 gives; shown is what the
\* read of line 167 does: "shown" when it succeeds, else the class of the
\* exception it raises, "FileNotFoundError" (caught at line 178) or
\* "Exception" for any other (caught at line 181).  gen is what
\* generate_protocol_from_csv did.
ShownOutcomes == {"shown", "FileNotFoundError", "Exception"}
update_csv_data_handler(csv_file_path, read, shown, tpl, fs, wr) ==
    LET gen == generate_protocol_from_csv(read, IterationOf(csv_file_path), ".",
                                          tpl, fs, wr)
    IN  IF gen.result.kind = "raise"
        THEN [result |-> None, files |-> gen.files, gen |-> gen.result,
              log |-> gen.log \o <<"Error processing CSV">>]
        ELSE IF gen.result.kind = "None"
        THEN [result |-> None, files |-> gen.files, gen |-> gen.result,
              log |-> gen.log]
        ELSE IF shown = "FileNotFoundError"
        THEN [result |-> None, files |-> gen.files, gen |-> gen.result,
              log |-> gen.log \o <<"CSV file not found">>]
        ELSE IF shown = "Exception"
        THEN [result |-> None, files |-> gen.files, gen |-> gen.result,
              log |-> gen.log \o <<"Error processing CSV">>]
        ELSE [result |-> gen.result, files |-> gen.files, gen |-> gen.result,
              log |-> gen.log \o <<"CSV data processed successfully",
                                   "Protocol file generated">>]

\* ------------------------------------------------------------------ inputs
Iters == 0..MaxIter
OutDirs == {".", "out"}
AllPaths == {ProtocolPath(d, n) : d \in OutDirs, n \in Iters}

Row(a, b, c, pos) ==
    [colorA |-> Float(a), colorB |-> Float(b), colorC |-> Float(c),
     DispensePos |-> Text(pos)]

\* A row with a well name, and one whose position label holds braces.
WellRow == Row(1205, 1108, 752, <<"A", "1">>)
Rows == {WellRow, Row(457, 984, 1453, <<LBRACE, "A", RBRACE>>)}

RowSeqs == UNION {[1..k -> Rows] : k \in 0..MaxRows}

\* Tables with the four columns, and tables that lack one of them.
FullTables == {DataFrame(ColumnSet, rows) : rows \in RowSeqs}
LackingTables ==
    {DataFrame(ColumnSet \ {c}, rows) : c \in ColumnSet, rows \in {<<>>, <<WellRow>>}}
Tables == FullTables \cup LackingTables

\* Base templates.  Each is a preamble, a first region, the run function, possibly
\* a second region, and a tail.
Preamble(withLabel) ==
    <<"from opentrons import protocol_api", NL, "metadata = ", LBRACE, NL, IND4>>
    \o (IF withLabel THEN <<LABEL>> ELSE <<"'protocolName': 'Basic Liquid Handling',">>)
    \o <<NL, IND4, "'apiLevel': '2.13'", NL, RBRACE, NL,
         "def run(protocol: protocol_api.ProtocolContext):", NL>>

Placeholder == <<NL, IND8, "'colorA': [],", NL, IND4>>
Body == <<NL, IND4, "plate = protocol.load_labware('corning_96_wellplate_360ul_flat', '1')", NL>>
Rest == <<IND4, "pipette.drop_tip()", NL>>

SimpleRegion == <<MARKER, LBRACE>> \o Placeholder \o <<RBRACE>>
NestedRegion ==
    <<MARKER, LBRACE, NL, IND8, "'wells': ", LBRACE, "'A1': 1", RBRACE, ",", NL,
      IND8, "'colorA': []", NL, IND4, RBRACE>>
EmptyRegion == <<MARKER, LBRACE, RBRACE>>
\* An opening brace that nothing closes.
OpenRegion == <<MARKER, LBRACE>> \o Placeholder
\* Two opening braces and one closing brace.
HalfOpenRegion ==
    <<MARKER, LBRACE, NL, IND8, "'wells': ", LBRACE, "'A1': 1", RBRACE, ",", NL>>

TplGood == Preamble(TRUE) \o SimpleRegion \o Body \o Rest
TplNoLabel == Preamble(FALSE) \o SimpleRegion \o Body \o Rest
TplNested == Preamble(TRUE) \o NestedRegion \o Body \o Rest
TplEmpty == Preamble(TRUE) \o EmptyRegion \o Body \o Rest
TplNoRegion == Preamble(TRUE) \o <<IND4, "BO_DATA = ", LBRACE, RBRACE>> \o Body \o Rest
TplOpen == Preamble(TRUE) \o OpenRegion \o Body \o Rest
TplHalfOpen == Preamble(TRUE) \o HalfOpenRegion \o Body \o Rest
TplTwoRegions == Preamble(TRUE) \o SimpleRegion \o Body \o SimpleRegion \o Rest
TplTwoLabels == Preamble(TRUE) \o SimpleRegion \o Body \o <<IND4, "meta2 = ", LBRACE, LABEL, RBRACE, NL>> \o Rest

Templates == {TplGood, TplNoLabel, TplNested, TplEmpty, TplNoRegion, TplOpen,
              TplHalfOpen, TplTwoRegions, TplTwoLabels}

\* CSV paths: ./data/<stem>.csv, one character per token.
BO_R == <<"B", "O", "_", "R">>
Stems ==
    {BO_R \o Str(n) : n \in Iters}
    \cup {BO_R \o <<"0">> \o Str(n) : n \in Iters}
    \cup {BO_R \o <<"x", "_">> \o BO_R \o Str(n) : n \in Iters}
    \cup {BO_R \o Str(n) \o <<"_">> \o BO_R \o Str(MaxIter - n) : n \in Iters}
    \cup {BO_R, <<"d", "a", "t", "a">>, <<"R", "1">>}
CsvPaths == {<<".", "/", "d", "a", "t", "a", "/">> \o st \o <<".", "c", "s", "v">> : st \in Stems}

\* The iteration number of a destination path.
PathIter(p) == CHOOSE n \in Iters : \E d \in OutDirs : ProtocolPath(d, n) = p

\* An artifact of an earlier run at the destination of iteration n.
OldArtifact(n) == PatchText(TplGood, BoData(DataFrame(ColumnSet, <<>>)), n)

\* ------------------------------------------------------------------- state
VARIABLES
    template,   \* color_mixing.py in the working directory: a File or NoFile
    files,      \* every destination path: a File or NoFile
    before,     \* files as they were when the last call was entered
    call,       \* the last call: its arguments, what it returned and printed
    latest      \* history: per destination, what the generations that
                \* succeeded for it should have left there

vars == <<template, files, before, call, latest>>

NoCall ==
    [op |-> "none", seq |-> 0, csv_file_path |-> <<>>, df |-> ReadError,
     iteration_number |-> 0, output_dir |-> "", gen |-> None, result |-> None,
     log |-> <<>>]

\* The destination of a generation for iteration n into directory dir, and
\* the history after a generation that returned gen.
Destination(dir, n) == <<dir, "/", "color_mixing_BO">> \o Str(n) \o <<".py">>
Latest(gen, df, n, dir) ==
    IF gen.kind = "path"
    THEN [latest EXCEPT ![Destination(dir, n)] = File(PatchText(template.text, BoData(df), n))]
    ELSE latest

\* A call of generate_protocol_from_csv.
CallGenerateFromCsv(read, n, dir, wr) ==
    LET r == generate_protocol_from_csv(read, n, dir, template, files, wr)
    IN  /\ files' = r.files
        /\ before' = files
        /\ call' = [op |-> "generate_protocol_from_csv", seq |-> call.seq + 1,
                    csv_file_path |-> <<>>, df |-> read, iteration_number |-> n,
                    output_dir |-> dir, gen |-> r.result, result |-> r.result,
                    log |-> r.log]
        /\ latest' = Latest(r.result, read, n, dir)
        /\ UNCHANGED template

\* A call of generate_protocol_from_dataframe.
CallGenerateFromDataframe(df, n, dir, wr) ==
    LET r == generate_protocol_from_dataframe(df, n, dir, template, files, wr)
    IN  /\ files' = r.files
        /\ before' = files
        /\ call' = [op |-> "generate_protocol_from_dataframe", seq |-> call.seq + 1,
                    csv_file_path |-> <<>>, df |-> df, iteration_number |-> n,
                    output_dir |-> dir, gen |-> r.result, result |-> r.result,
                    log |-> r.log]
        /\ latest' = Latest(r.result, df, n, dir)
        /\ UNCHANGED template

\* A call of update_csv_data_handler.
CallUpdateCsvDataHandler(path, read, shown, wr) ==
    LET r == update_csv_data_handler(path, read, shown, template, files, wr)
    IN  /\ files' = r.files
        /\ before' = files
        /\ call' = [op |-> "update_csv_data_handler", seq |-> call.seq + 1,
                    csv_file_path |-> path, df |-> read,
                    iteration_number |-> IterationOf(path), output_dir |-> ".",
                    gen |-> r.gen, result |-> r.result, log |-> r.log]
        /\ latest' = Latest(r.gen, read, IterationOf(path), ".")
        /\ UNCHANGED template

\* The outcomes of the write of lines 70-72 for a call with table read: the
\* call gets to the write only with a table that was read and has the four
\* columns and with a template that was read; otherwise nothing is written
\* and the outcome is immaterial.
WritesOf(read) ==
    IF read.ok /\ FirstMissing(read, 1) = "" /\ template.exists
    THEN WriteOutcomes ELSE {WriteDone}
\* The outcomes of the read of line 167: the handler gets to it only after a
\* write that succeeded.
ShownsOf(read, wr) ==
    IF WritesOf(read) = WriteOutcomes /\ wr = WriteDone
    THEN ShownOutcomes ELSE {"shown"}

\* One call, of any of the three functions with any of the inputs, from a
\* working directory without artifacts or with those of an earlier run.
Init ==
    /\ template \in {File(t) : t \in Templates} \cup {NoFile}
    /\ files \in {[p \in AllPaths |-> NoFile],
                  [p \in AllPaths |-> File(OldArtifact(PathIter(p)))]}
    /\ before = files
    /\ call = NoCall
    /\ latest = files

GenerateFromCsv ==
    /\ call.seq = 0
    /\ \E read \in Tables \cup {ReadError}, n \in Iters, dir \in OutDirs :
           \E wr \in WritesOf(read) :
               CallGenerateFromCsv(read, n, dir, wr)

GenerateFromDataframe ==
    /\ call.seq = 0
    /\ \E df \in Tables, n \in Iters, dir \in OutDirs :
           \E wr \in WritesOf(df) :
               CallGenerateFromDataframe(df, n, dir, wr)

UpdateCsvDataHandler ==
    /\ call.seq = 0
    /\ \E path \in CsvPaths, read \in Tables \cup {ReadError} :
           \E wr \in WritesOf(read) :
               \E shown \in ShownsOf(read, wr) :
                   CallUpdateCsvDataHandler(path, read, shown, wr)

Next == GenerateFromCsv \/ GenerateFromDataframe \/ UpdateCsvDataHandler

Spec == Init /\ [][Next]_vars

\* Runs of the optimisation loop: up to MaxCalls calls, one after the other,
\* on a template with a region and a label, with tables of the loop.
LoopTables == {DataFrame(ColumnSet, <<>>), DataFrame(ColumnSet, <<WellRow>>)}
LoopPaths == {<<".", "/", "d", "a", "t", "a", "/">> \o BO_R \o Str(n) \o <<".", "c", "s", "v">> :
                 n \in Iters}

LoopInit ==
    /\ template = File(TplGood)
    /\ files = [p \in AllPaths |-> NoFile]
    /\ before = files
    /\ call = NoCall
    /\ latest = files

LoopGenerateFromCsv ==
    /\ call.seq < MaxCalls
    /\ \E read \in LoopTables \cup {ReadError}, n \in Iters, dir \in OutDirs :
           \E wr \in WritesOf(read) :
               CallGenerateFromCsv(read, n, dir, wr)

LoopGenerateFromDataframe ==
    /\ call.seq < MaxCalls
    /\ \E df \in LoopTables, n \in Iters, dir \in OutDirs :
           \E wr \in WritesOf(df) :
               CallGenerateFromDataframe(df, n, dir, wr)

LoopUpdateCsvDataHandler ==
    /\ call.seq < MaxCalls
    /\ \E path \in LoopPaths, read \in LoopTables \cup {ReadError} :
           \E wr \in WritesOf(read) :
               \E shown \in ShownsOf(read, wr) :
                   CallUpdateCsvDataHandler(path, read, shown, wr)

LoopNext == LoopGenerateFromCsv \/ LoopGenerateFromDataframe \/ LoopUpdateCsvDataHandler

LoopSpec == LoopInit /\ [][LoopNext]_vars

\* ---------------------------------------------------- the claims' vocabulary
\* The call made was a generation that wrote its artifact.
Patched == call.gen.kind = "path"
\* The text it wrote, the template it read and the batch it was given.
Out == files[call.gen.path].text
Base == template.text
Batch == BoData(call.df)

\* The call got as far as patching: it had a table with the four columns and
\* a readable template.
ReachedPatcher ==
    /\ call.op # "none"
    /\ call.df.ok
    /\ ColumnSet \subseteq call.df.cols
    /\ template.exists

Least(S) == CHOOSE x \in S : \A y \in S : x <= y

\* A candidate mutable data region starts at i: the marker comment with its
\* assignment, then an opening brace.
Candidates(s) == {i \in 1..Len(s) - 1 : s[i] = MARKER /\ s[i + 1] = LBRACE}

\* The closing brace that balances the opening brace at o, 0 when none does.
BalancedClose(s, o) ==
    LET depth(k) == Cardinality({j \in o..k : s[j] = LBRACE})
                    - Cardinality({j \in o..k : s[j] = RBRACE})
        ends == {k \in o..Len(s) : depth(k) = 0}
    IN  IF ends = {} THEN 0 ELSE Least(ends)

\* The template is malformed: no candidate region, or the braces of the first
\* one do not balance.
Malformed(s) ==
    \/ Candidates(s) = {}
    \/ BalancedClose(s, Least(Candidates(s)) + 1) = 0

\* The tokens lo..hi of s stand in out from position q on.
Occurs(out, q, s, lo, hi) ==
    /\ q >= 1
    /\ q + (hi - lo) <= Len(out)
    /\ \A d \in 0..(hi - lo) : out[q + d] = s[lo + d]

\* Every run of tokens of s outside the positions cov stands unchanged in
\* out, the runs in their order and without overlap, the first at the start
\* of out if s starts with it and the last at the end of out if s ends with
\* it.  k and p are the first positions of s and out not yet accounted for.
RECURSIVE KeptFrom(_, _, _, _, _)
KeptFrom(s, cov, out, k, p) ==
    LET open == {j \in k..Len(s) : j \notin cov}
    IN  IF open = {} THEN TRUE
        ELSE LET lo == Least(open)
                 stops == {j \in lo..Len(s) : j \in cov}
                 hi == IF stops = {} THEN Len(s) ELSE Least(stops) - 1
                 places == {q \in p..Len(out) :
                               /\ Occurs(out, q, s, lo, hi)
                               /\ (lo = 1 => q = 1)
                               /\ (hi = Len(s) => q + (hi - lo) = Len(out))}
             IN  /\ places # {}
                 /\ KeptFrom(s, cov, out, hi + 1, Least(places) + (hi - lo) + 1)

Kept(s, cov, out) == KeptFrom(s, cov, out, 1, 1)

\* The positions of s inside the candidate region that starts at i, when its
\* braces balance.
RegionSpan(s, i) == i..BalancedClose(s, i + 1)
LabelPlaces(s) == {j \in 1..Len(s) : s[j] = LABEL}

\* ------------------------------------------------------------------ claims
\* C1: a generation call whose base template has no mutable data region, or
\* whose region braces do not balance, fails (it returns no path) and leaves
\* the destination as it was.
C1_MalformedTemplateRejected ==
    (ReachedPatcher /\ Malformed(Base))
        => /\ call.result.kind # "path"
           /\ files = before

\* C2: the patched text is the base text outside the (first)
\* mutable data region and the (first) occurrence of the label.
C2_OnlyFirstSpansChange ==
    (Patched /\ ~Malformed(Base))
        => Kept(Base,
                RegionSpan(Base, Least(Candidates(Base)))
                \cup (IF LabelPlaces(Base) = {} THEN {} ELSE {Least(LabelPlaces(Base))}),
                Out)

\* C3: when the literal of the region holds nested braces, the replaced region
\* runs to the brace that balances the first one: after the new data block
\* comes what followed the balanced region, and nothing of the old literal.
C3_NestedRegionReplacedWhole ==
    (Patched /\ ~Malformed(Base))
        => LET i == Least(Candidates(Base))
               e == BalancedClose(Base, i + 1)
           IN  FirstClose(Base, i + 2) < e
                   => Out = Relabel(SubSeq(Base, 1, i - 1), call.iteration_number)
                            \o DataSection(Batch, call.iteration_number)
                            \o PatchText(SubSeq(Base, e + 1, Len(Base)), Batch,
                                         call.iteration_number)

\* The candidate regions that the pattern matches: those with at least one
\* token before the first closing brace; two that share that brace overlap.
Matched(s) == {i \in Candidates(s) : FirstClose(s, i + 2) >= i + 3}
NumMatches(s) == Cardinality({FirstClose(s, i + 2) : i \in Matched(s)})

\* C4: with more than one candidate region only the first is
\* replaced, and the text after it, later regions included, stays as it was.
C4_OnlyFirstRegionReplaced ==
    (Patched /\ ~Malformed(Base) /\ NumMatches(Base) > 1)
        => LET i == Least(Candidates(Base))
           IN  Out = Relabel(SubSeq(Base, 1, i - 1)
                             \o DataSection(Batch, call.iteration_number)
                             \o SubSeq(Base, BalancedClose(Base, i + 1) + 1, Len(Base)),
                             call.iteration_number)

\* ------------------------------------------------- reading the literal back
\* The BO_DATA literal of a text read back as a mapping: the four keys in
\* their order, each with a list of floats or strings.  A string may not run
\* over a line break.
Ws == {NL, IND4, IND8, IND16}
At(s, k) == IF k \in 1..Len(s) THEN s[k] ELSE ""
SkipWs(s, i) == Least({j \in i..Len(s) + 1 : At(s, j) \notin Ws})
Failed == [ok |-> FALSE, val |-> <<>>, next |-> 0]

ParseString(s, i) ==
    LET closes == {j \in i + 1..Len(s) : s[j] = QUOTE}
    IN  IF closes = {} THEN Failed
        ELSE LET chars == SubSeq(s, i + 1, Least(closes) - 1)
             IN  IF \E k \in 1..Len(chars) : chars[k] = NL THEN Failed
                 ELSE [ok |-> TRUE, val |-> Text(chars), next |-> Least(closes) + 1]

ParseNumber(s, i) ==
    LET d == Least({j \in i..Len(s) : ~IsDigit(At(s, j + 1))})
    IN  IF At(s, d + 1) = "." /\ IsDigit(At(s, d + 2))
        THEN [ok |-> TRUE,
              val |-> Float(10 * IntOf(s, i, d) + DigitValue(s[d + 2])),
              next |-> d + 3]
        ELSE Failed

ParseItem(s, i) ==
    IF At(s, i) = QUOTE THEN ParseString(s, i)
    ELSE IF IsDigit(At(s, i)) THEN ParseNumber(s, i)
    ELSE Failed

\* The items of a list from i on, up to and with its closing bracket.
RECURSIVE ParseItems(_, _)
ParseItems(s, i) ==
    LET item == ParseItem(s, SkipWs(s, i))
    IN  IF ~item.ok THEN Failed
        ELSE LET m == SkipWs(s, item.next)
             IN  IF At(s, m) = "]"
                 THEN [ok |-> TRUE, val |-> <<item.val>>, next |-> m + 1]
                 ELSE IF At(s, m) = ","
                 THEN LET rest == ParseItems(s, m + 1)
                      IN  IF rest.ok
                          THEN [ok |-> TRUE, val |-> <<item.val>> \o rest.val,
                                next |-> rest.next]
                          ELSE Failed
                 ELSE Failed

ParseList(s, i) ==
    IF At(s, i) # "[" THEN Failed
    ELSE IF At(s, SkipWs(s, i + 1)) = "]"
    THEN [ok |-> TRUE, val |-> <<>>, next |-> SkipWs(s, i + 1) + 1]
    ELSE ParseItems(s, i + 1)

\* The members from the j-th key on, up to and with the closing brace.
RECURSIVE ParseMembers(_, _, _)
ParseMembers(s, i, j) ==
    LET k == SkipWs(s, i)
    IN  IF At(s, k) # JsonKey(Columns[j]) \/ At(s, k + 1) # ": " THEN Failed
        ELSE LET list == ParseList(s, k + 2)
             IN  IF ~list.ok THEN Failed
                 ELSE LET m == SkipWs(s, list.next)
                      IN  IF j = Len(Columns)
                          THEN (IF At(s, m) = RBRACE
                                THEN [ok |-> TRUE, val |-> <<list.val>>, next |-> m + 1]
                                ELSE Failed)
                          ELSE IF At(s, m) # "," THEN Failed
                          ELSE LET rest == ParseMembers(s, m + 1, j + 1)
                               IN  IF rest.ok
                                   THEN [ok |-> TRUE, val |-> <<list.val>> \o rest.val,
                                         next |-> rest.next]
                                   ELSE Failed

\* The first BO_DATA assignment of a text, read back.
Extract(s) ==
    LET starts == {i \in 1..Len(s) - 1 :
                      s[i] \in {MARKER, "\n    BO_DATA = "} /\ s[i + 1] = LBRACE}
    IN  IF starts = {} THEN Failed ELSE ParseMembers(s, Least(starts) + 2, 1)

HasBrace(df) ==
    \E i \in 1..Len(df.rows) : \E k \in 1..Len(df.rows[i].DispensePos.v) :
        df.rows[i].DispensePos.v[k] \in {LBRACE, RBRACE}

\* C5: the BO_DATA literal read back from the patched text is the batch: the
\* four keys in their order, each with its values in row order.
C5_RoundTrip ==
    (Patched /\ ~Malformed(Base))
        => /\ Extract(Out).ok
           /\ Extract(Out).val = [j \in 1..Len(Columns) |-> Batch[Columns[j]]]

\* The round trip does hold for a region the pattern matches and position
\* labels without braces.
RoundTripWithoutBraces ==
    (Patched /\ NumMatches(Base) > 0 /\ Least(Matched(Base)) = Least(Candidates(Base))
     /\ ~HasBrace(call.df))
        => /\ Extract(Out).ok
           /\ Extract(Out).val = [j \in 1..Len(Columns) |-> Batch[Columns[j]]]

\* C6: a table that lacks one of the four columns makes the call fail before
\* anything is written: the generation functions raise KeyError for the
\* column, the handler reports the error and returns None, and the
\* destinations are as they were.
LacksColumn == call.op # "none" /\ call.df.ok /\ ~(ColumnSet \subseteq call.df.cols)
C6_MissingColumnSurfaces ==
    LacksColumn
        => /\ files = before
           /\ call.result.kind # "path"
           /\ call.gen.kind = "raise"
           /\ call.gen.exc[1] = "KeyError"
           /\ call.gen.exc[2] \in ColumnSet \ call.df.cols
           /\ call.op # "update_csv_data_handler" => call.result = call.gen
           /\ call.op = "update_csv_data_handler"
                  => /\ call.result = None
                     /\ call.log[Len(call.log)] = "Error processing CSV"
C6_Witness ==
    /\ LacksColumn
    /\ "colorC" \notin call.df.cols
    /\ call.op = "generate_protocol_from_csv"
    /\ template = File(TplGood)
    /\ before[ProtocolPath(call.output_dir, call.iteration_number)].exists

\* C7: a template with a well-formed region and no label is patched and
\* written, and the caller is told that the relabel did not occur: by the
\* return value or by a message that an ordinary success does not print.
OrdinaryMessages ==
    {"Loaded CSV data", "Processing DataFrame data", "Generated protocol file",
     "CSV data processed successfully", "Protocol file generated"}
C7_RelabelSkipNotified ==
    (ReachedPatcher /\ ~Malformed(Base) /\ LabelPlaces(Base) = {} /\ call.result.kind = "path")
        => /\ Patched
           /\ \E k \in 1..Len(call.log) : call.log[k] \notin OrdinaryMessages

\* The number that the digits of s from position k on spell, 0 without digits.
NumberAt(s, k) ==
    IF ~IsDigit(At(s, k)) THEN 0
    ELSE IntOf(s, k, Least({j \in k..Len(s) : ~IsDigit(At(s, j + 1))}))
BO_RPlaces(s) == {i \in 1..Len(s) : StartsAt(s, i, BO_R)}
IsHandlerCall == call.op = "update_csv_data_handler"
\* The artifact of the handler is at ./color_mixing_BO<n>.py.
HandlerWroteFor(n) ==
    Patched => /\ call.gen.path = <<".", "/", "color_mixing_BO">> \o Str(n) \o <<".py">>
               /\ files[call.gen.path].exists

\* C8 as stated: the iteration identifier is the number spelled by the digits
\* after the first BO_R of the path, 0 when the path holds no BO_R, and the
\* artifact is written for that identifier.
C8_DigitsAfterFirstBO_R ==
    IsHandlerCall
        => LET at == BO_RPlaces(call.csv_file_path)
               n == IF at = {} THEN 0 ELSE NumberAt(call.csv_file_path, Least(at) + 4)
           IN  call.iteration_number = n /\ HandlerWroteFor(n)

\* C8 as amended: the iteration identifier is the number spelled by the
\* digits after the first BO_R that a digit follows, 0 when the path holds no
\* such BO_R, and the artifact is written for that identifier.
C8_DigitsAfterFirstNumberedBO_R ==
    IsHandlerCall
        => LET at == {i \in BO_RPlaces(call.csv_file_path) :
                         IsDigit(At(call.csv_file_path, i + 4))}
               n == IF at = {} THEN 0 ELSE NumberAt(call.csv_file_path, Least(at) + 4)
           IN  call.iteration_number = n /\ HandlerWroteFor(n)
C8_Witness ==
    /\ IsHandlerCall
    /\ Patched
    /\ call.iteration_number = 1
    /\ Least(BO_RPlaces(call.csv_file_path)) + 4 <= Len(call.csv_file_path)
    /\ ~IsDigit(call.csv_file_path[Least(BO_RPlaces(call.csv_file_path)) + 4])

\* C9: after any sequence of generation calls every destination for which a
\* generation succeeded holds exactly the patched text of the last generation
\* that succeeded for its directory and iteration number (a later generation
\* for the same destination replaces the artifact, one that fails leaves it
\* alone), and a call leaves the destinations of other iteration numbers and
\* directories as they were.
C9_Overwrite ==
    \A p \in AllPaths :
        /\ latest[p].exists => files[p] = latest[p]
        /\ (call.op # "none" /\ p # Destination(call.output_dir, call.iteration_number))
               => files[p] = before[p]

\* C10: the handler returns a path exactly when it wrote the artifact, and
\* when it returns None the destinations are as they were.
C10_ReturnAgreesWithArtifact ==
    IsHandlerCall
        => /\ (call.result.kind = "path") <=> Patched
           /\ call.result.kind # "path" => files = before

====
